---- MODULE Spec2Model ----
(***************************************************************************)
(* Model of clitools/screen.py: the Screen buffer, the displayable         *)
(* elements (Text, Button, Rectangle), the key decoder get_key in its      *)
(* POSIX and Windows variants, the focus navigation of Screen.listen_keys, *)
(* the display interrupted by the resize signal, and the main program of   *)
(* client.py that owns the terminal mode.                                  *)
(*                                                                         *)
(* Python strings are sequences of units.  A buffer cell is a Python str,  *)
(* modelled as a sequence of one-unit strings; the escape "\x1b[" is the   *)
(* unit "ESC[" and "\x1b" alone is the unit "ESC", "\r" is "CR".           *)
(* Python's None focus is 0; elements are identified by their pool id.     *)
(***************************************************************************)
EXTENDS Integers, Sequences, FiniteSets, TLC

VARIABLES cols, rows, buffer, objects, buttons, focus, pool, frame, err,
          listening, pc, key, read, eof, edits, last, render, term, plat,
          clients, conns, bcast

vars == <<cols, rows, buffer, objects, buttons, focus, pool, frame, err,
          listening, pc, key, read, eof, edits, last, render, term, plat,
          clients, conns, bcast>>

\* the server of connect.py: its client set, its connections with their
\* receive threads, and the broadcast in progress
net == <<clients, conns, bcast>>

\* the display in progress, the terminal mode with the position of the main
\* program, the platform variant with its pending input, and the server
aux == <<render, term, plat, net>>

(***************************************************************************)
(* Bounds of the model.                                                    *)
(***************************************************************************)
MaxCols == 2
MaxRows == 2
MaxObjects == 2
MaxEdits == 1
MaxKeyLen == 4
MaxNavRow == 2
MaxNavCol == 2
MaxConns == 2

None == 0

(***************************************************************************)
(* Numbers as Python computes them in Point.col / Point.row: a value kept  *)
(* as twice its magnitude (so that halves are exact) with its Python type. *)
(***************************************************************************)
Num(t2, fl) == [t2 |-> t2, fl |-> fl]
PyInt(n) == Num(2 * n, FALSE)
NumAdd(a, b) == Num(a.t2 + b.t2, a.fl \/ b.fl)
NumSub(a, b) == Num(a.t2 - b.t2, a.fl \/ b.fl)
\* the product of a coordinate (twice-value c.t2) and the integer n
NumMulInt(c, n) == Num(c.t2 * n, c.fl)

\* Point(y, x): normalized coordinates
Point(y, x) == [y |-> y, x |-> x]
\* Point.col: self.x * (cols - 1) + 1
PointCol(p, c) == NumAdd(NumMulInt(p.x, c - 1), PyInt(1))
\* Point.row: self.y * (rows - 1) + 1
PointRow(p, r) == NumAdd(NumMulInt(p.y, r - 1), PyInt(1))

(***************************************************************************)
(* Elements.                                                               *)
(***************************************************************************)
Text(text, row, col, fmt) ==
    [kind |-> "Text", text |-> text, row |-> row, col |-> col, fmt |-> fmt,
     top_left |-> Point(PyInt(0), PyInt(0)), bottom_right |-> Point(PyInt(0), PyInt(0))]

Button(text, row, col, fmt) ==
    [kind |-> "Button", text |-> text, row |-> row, col |-> col, fmt |-> fmt,
     top_left |-> Point(PyInt(0), PyInt(0)), bottom_right |-> Point(PyInt(0), PyInt(0))]

Rectangle(top_left, bottom_right) ==
    [kind |-> "Rectangle", text |-> <<>>, row |-> 0, col |-> 0, fmt |-> "",
     top_left |-> top_left, bottom_right |-> bottom_right]

\* isinstance(obj, Button)
IsButton(e) == e.kind = "Button"

\* Python floor division by 2
FloorDiv2(n) == IF n >= 0 THEN n \div 2 ELSE -((1 - n) \div 2)

\* Button.center: (row, col + (len(text) - 1) // 2)
center(e) == <<e.row, e.col + FloorDiv2(Len(e.text) - 1)>>

(***************************************************************************)
(* The buffer.  A render state is the buffer with the pending exception.   *)
(***************************************************************************)
Blank == <<" ">>
NoErr == "none"

RS(buf, e) == [buf |-> buf, err |-> e]

\* Python list indexing: 0-based, negative indices count from the end
PyInRange(buf, i) == -Len(buf) <= i /\ i < Len(buf)
PyPos(buf, i) == IF i >= 0 THEN i + 1 ELSE Len(buf) + i + 1

\* Screen._idx
Idx(c, r, row, col) ==
    IF 1 <= col /\ col <= c /\ 1 <= row /\ row <= r
    THEN col - 1 + (row - 1) * c
    ELSE -1

\* the value of the one element of a set: The({e(v) : v \in {x}}) computes
\* x once and e from its value
The(S) == CHOOSE x \in S : TRUE

\* Screen.__getitem__: the cell read, or the exception raised
GetItem(buf, c, r, row, col) ==
    LET idx == Idx(c, r, row, col)
    IN  IF idx >= 0
        THEN IF PyInRange(buf, idx)
             THEN [val |-> buf[PyPos(buf, idx)], err |-> NoErr]
             ELSE [val |-> <<>>, err |-> "IndexError"]
        ELSE [val |-> <<>>, err |-> NoErr]

\* __setitem__ without the test of the index
SetItemUnchecked(s0, c, r, row, col, value) ==
    The({ IF s.err # NoErr \/ s.buf = <<>> THEN s
          ELSE RS([s.buf EXCEPT ![PyPos(s.buf, Idx(c, r, row, col))] =
                                     <<value[1]>>], NoErr)
          : s \in {s0} })

\* Screen.__setitem__
SetItem(s0, c, r, row, col, value) ==
    The({ IF s.err # NoErr THEN s
          ELSE LET idx == Idx(c, r, row, col)
               IN  IF idx >= 0
                   THEN IF Len(value) = 0 \/ ~PyInRange(s.buf, idx)
                        THEN RS(s.buf, "IndexError")
                        ELSE RS([s.buf EXCEPT ![PyPos(s.buf, idx)] =
                                                   <<value[1]>>], NoErr)
                   ELSE s
          : s \in {s0} })

\* Screen.__setitem__ with the position computed by Point arithmetic: a
\* float position inside the screen gives a float list index (TypeError)
SetItemNum(s0, c, r, row, col, value) ==
    The({ IF s.err # NoErr THEN s
          ELSE IF /\ 2 <= col.t2 /\ col.t2 <= 2 * c
                  /\ 2 <= row.t2 /\ row.t2 <= 2 * r
               THEN IF col.fl \/ row.fl
                    THEN RS(s.buf, "TypeError")
                    ELSE SetItem(s, c, r, row.t2 \div 2, col.t2 \div 2, value)
               ELSE s
          : s \in {s0} })

Min(a, b) == IF a <= b THEN a ELSE b
Max(a, b) == IF a >= b THEN a ELSE b

\* the style-on sequence f"\x1b[{fmt}m" and the style-off sequence "\x1b[m"
StyleOn(f) == IF f = "" THEN <<"ESC[", "m">> ELSE <<"ESC[", f, "m">>
StyleOff == <<"ESC[", "m">>

\* fmt with the width clamped from above only
FmtNoLowerClamp(s0, c, r, f, row, col, width) ==
    The({ IF s.err # NoErr THEN s
          ELSE IF 1 <= row /\ row <= r
          THEN LET col1 == Min(Max(1, col), c)
                   width1 == Min(width, c - col1 + 1)
                   idx == Idx(c, r, row, col1)
                   idx2 == idx + width1 - 1
               IN  IF ~PyInRange(s.buf, idx) THEN RS(s.buf, "IndexError")
                   ELSE The({ IF ~PyInRange(b1, idx2)
                              THEN RS(b1, "IndexError")
                              ELSE RS([b1 EXCEPT ![PyPos(b1, idx2)] =
                                                      @ \o StyleOff], NoErr)
                              : b1 \in {[s.buf EXCEPT ![PyPos(s.buf, idx)] =
                                                          StyleOn(f) \o @]} })
          ELSE s
          : s \in {s0} })

\* Screen.fmt
Fmt(s0, c, r, f, row, col, width) ==
    The({ IF s.err # NoErr THEN s
          ELSE IF 1 <= row /\ row <= r
          THEN LET col1 == Min(Max(1, col), c)
                   width1 == Min(Max(1, width), c - col1 + 1)
                   idx == Idx(c, r, row, col1)
                   idx2 == idx + width1 - 1
               IN  IF ~PyInRange(s.buf, idx) THEN RS(s.buf, "IndexError")
                   ELSE The({ IF ~PyInRange(b1, idx2)
                              THEN RS(b1, "IndexError")
                              ELSE RS([b1 EXCEPT ![PyPos(b1, idx2)] =
                                                      @ \o StyleOff], NoErr)
                              : b1 \in {[s.buf EXCEPT ![PyPos(s.buf, idx)] =
                                                          StyleOn(f) \o @]} })
          ELSE s
          : s \in {s0} })

\* Screen.clear
clear(buf) == [i \in 1..Len(buf) |-> Blank]

(***************************************************************************)
(* Element rendering.                                                      *)
(***************************************************************************)
\* the character loop of Text.display, from character i on
RECURSIVE TextChars(_, _, _, _, _)
TextChars(s, c, r, e, i) ==
    IF i > Len(e.text) THEN s
    ELSE TextChars(SetItem(s, c, r, e.row, e.col + i - 1, <<e.text[i]>>),
                   c, r, e, i + 1)

\* Text.display
TextDisplay(s, c, r, e) ==
    IF e.fmt # ""
    THEN Fmt(TextChars(s, c, r, e, 1), c, r, e.fmt, e.row, e.col, Len(e.text))
    ELSE TextChars(s, c, r, e, 1)

\* Button.focus
ButtonFocus(s, c, r, e) == Fmt(s, c, r, "7", e.row, e.col, Len(e.text))

\* for i in range(1, w - 1): screen[y, x + i] = ch     (from i on)
RECURSIVE HEdge(_, _, _, _, _, _, _, _)
HEdge(s0, c, r, y, x, w, ch, i) ==
    The({ IF s.err # NoErr THEN s
          ELSE IF w.fl THEN RS(s.buf, "TypeError")
          ELSE IF 2 * i >= w.t2 - 2 THEN s
          ELSE HEdge(SetItemNum(s, c, r, y, NumAdd(x, PyInt(i)), <<ch>>),
                     c, r, y, x, w, ch, i + 1)
          : s \in {s0} })

\* for j in range(1, h - 1): the two vertical edges     (from j on)
RECURSIVE VEdges(_, _, _, _, _, _, _, _)
VEdges(s0, c, r, y, x, w, h, j) ==
    The({ IF s.err # NoErr THEN s
          ELSE IF h.fl THEN RS(s.buf, "TypeError")
          ELSE IF 2 * j >= h.t2 - 2 THEN s
          ELSE VEdges(SetItemNum(SetItemNum(s, c, r, NumAdd(y, PyInt(j)), x,
                                            <<"|">>),
                                 c, r, NumAdd(y, PyInt(j)),
                                 NumSub(NumAdd(x, w), PyInt(1)), <<"|">>),
                      c, r, y, x, w, h, j + 1)
          : s \in {s0} })

\* the writes of Rectangle.display with its locals x, y, w, h; the glyphs
\* of the box are the units TL, TR, BL, BR, "=" and "|"
RectangleDraw(s, c, r, x, y, w, h) ==
    LET xr == NumSub(NumAdd(x, w), PyInt(1))
        yb == NumSub(NumAdd(y, h), PyInt(1))
        s1 == SetItemNum(s, c, r, y, x, <<"TL">>)
        s2 == HEdge(s1, c, r, y, x, w, "=", 1)
        s3 == SetItemNum(s2, c, r, y, xr, <<"TR">>)
        s4 == VEdges(s3, c, r, y, x, w, h, 1)
        s5 == SetItemNum(s4, c, r, yb, x, <<"BL">>)
        s6 == HEdge(s5, c, r, yb, x, w, "=", 1)
    IN  SetItemNum(s6, c, r, yb, xr, <<"BR">>)

\* Rectangle.display
RectangleDisplay(s, c, r, e) ==
    RectangleDraw(s, c, r, PointCol(e.top_left, c), PointRow(e.top_left, r),
                  NumAdd(NumSub(PointCol(e.bottom_right, c),
                                PointCol(e.top_left, c)), PyInt(1)),
                  NumAdd(NumSub(PointRow(e.bottom_right, r),
                                PointRow(e.top_left, r)), PyInt(1)))

\* obj.display()
ObjDisplay(s, c, r, e) ==
    IF e.kind = "Rectangle" THEN RectangleDisplay(s, c, r, e)
    ELSE TextDisplay(s, c, r, e)

\* for obj in self._objects: obj.display()     (from object i on)
RECURSIVE DisplayObjects(_, _, _, _, _, _)
DisplayObjects(s, c, r, objs, p, i) ==
    IF i > Len(objs) THEN s
    ELSE DisplayObjects(ObjDisplay(s, c, r, p[objs[i]]), c, r, objs, p, i + 1)

\* "".join(buffer)
RECURSIVE Join(_)
Join(buf) == IF buf = <<>> THEN <<>> ELSE Head(buf) \o Join(Tail(buf))

\* a list in reverse order
RECURSIVE Reverse(_)
Reverse(l) == IF l = <<>> THEN <<>> ELSE Append(Reverse(Tail(l)), Head(l))

\* a display that paints the elements from the last registered to the first
displayReversed(buf, c, r, objs, p, f, oldFrame) ==
    The({ [buf |-> s.buf, err |-> s.err,
           frame |-> IF s.err = NoErr THEN <<"ESC[H">> \o Join(s.buf)
                     ELSE oldFrame]
          : s \in { IF f # None
                    THEN ButtonFocus(DisplayObjects(RS(clear(buf), NoErr),
                                                    c, r, Reverse(objs), p, 1),
                                     c, r, p[f])
                    ELSE DisplayObjects(RS(clear(buf), NoErr),
                                        c, r, Reverse(objs), p, 1) } })

\* Screen.display: the render state and the text printed (unchanged when an
\* exception leaves display before the print)
display(buf, c, r, objs, p, f, oldFrame) ==
    The({ [buf |-> s.buf, err |-> s.err,
           frame |-> IF s.err = NoErr THEN <<"ESC[H">> \o Join(s.buf)
                     ELSE oldFrame]
          : s \in { IF f # None
                    THEN ButtonFocus(DisplayObjects(RS(clear(buf), NoErr),
                                                    c, r, objs, p, 1),
                                     c, r, p[f])
                    ELSE DisplayObjects(RS(clear(buf), NoErr),
                                        c, r, objs, p, 1) } })

(***************************************************************************)
(* The key decoder and the focus navigation.                               *)
(***************************************************************************)
\* the units stdin.read(1) can return; "" is the read at end of input
Units == {"", "ESC", "[", "O", "A", "B", "C", "D", "CR", "~", "1"}

\* str.isalpha for one unit
isalpha(u) == u \in {"O", "A", "B", "C", "D"}

\* key += char
KeyAppend(k, u) == IF u = "" THEN k ELSE Append(k, u)

ArrowUp == <<"ESC", "[", "A">>
ArrowDown == <<"ESC", "[", "B">>
ArrowRight == <<"ESC", "[", "C">>
ArrowLeft == <<"ESC", "[", "D">>
Arrows == {ArrowUp, ArrowDown, ArrowRight, ArrowLeft}
Enter == <<"CR">>
Quit == <<"ESC", "ESC">>

col_factor(k) == IF k = ArrowRight THEN 1 ELSE IF k = ArrowLeft THEN -1 ELSE 0
row_factor(k) == IF k = ArrowDown THEN 1 ELSE IF k = ArrowUp THEN -1 ELSE 0

\* a weight that is not scaled by the distance
WeightUnscaled(k, f, b) ==
    LET col_diff == center(b)[2] - center(f)[2]
        row_diff == 2 * (center(b)[1] - center(f)[1])
    IN  [num |-> col_factor(k) * col_diff + row_factor(k) * row_diff,
         den |-> 1]

\* the weight of a button for the key k and the focused element f, as the
\* fraction num / den (den > 0)
Weight(k, f, b) ==
    LET col_diff == center(b)[2] - center(f)[2]
        row_diff == 2 * (center(b)[1] - center(f)[1])
    IN  [num |-> col_factor(k) * col_diff + row_factor(k) * row_diff,
         den |-> col_diff * col_diff + row_diff * row_diff + 1]

\* weight >= best_weight
GreaterOrEqual(w, best) == w.num * best.den >= best.num * w.den

\* weight > best_weight, both fractions with positive denominators
Greater(w, best) == w.num * best.den > best.num * w.den

\* for i, button in enumerate(buttons): ...   (from list position i on;
\* choice is the 0-based index of the loop, -1 when none was chosen)
RECURSIVE Choose(_, _, _, _, _, _, _)
Choose(k, f, btns, p, i, best, choice) ==
    IF i > Len(btns) THEN choice
    ELSE IF btns[i] # f /\ Greater(Weight(k, p[f], p[btns[i]]), best)
         THEN Choose(k, f, btns, p, i + 1, Weight(k, p[f], p[btns[i]]), i - 1)
         ELSE Choose(k, f, btns, p, i + 1, best, choice)

\* a first focus on the last button
NewFocusLast(k, f, btns, p) ==
    IF f # None
    THEN LET choice == Choose(k, f, btns, p, 1, [num |-> 0, den |-> 1], -1)
         IN  IF choice >= 0 THEN btns[choice + 1] ELSE f
    ELSE IF Len(btns) > 0 THEN btns[Len(btns)] ELSE f

\* the focus after one arrow key
NewFocus(k, f, btns, p) ==
    IF f # None
    THEN LET choice == Choose(k, f, btns, p, 1, [num |-> 0, den |-> 1], -1)
         IN  IF choice >= 0 THEN btns[choice + 1] ELSE f
    ELSE IF Len(btns) > 0 THEN btns[1] ELSE f

(***************************************************************************)
(* State.                                                                  *)
(***************************************************************************)
\* the operation performed by the last step, with its arguments and result,
\* the button whose press() it called and the focus a key started from
Last(op, obj, row, col, width, val, res, k, pr) ==
    [op |-> op, obj |-> obj, row |-> row, col |-> col, width |-> width,
     val |-> val, res |-> res, key |-> k, pressed |-> pr,
     focus0 |-> IF op = "key" THEN focus ELSE None]
Op(op) == Last(op, 0, 0, 0, 0, <<>>, <<>>, <<>>, None)
ObjOp(op, id) == Last(op, id, 0, 0, 0, <<>>, <<>>, <<>>, None)
KeyOp(k, pr) == Last("key", 0, 0, 0, 0, <<>>, <<>>, k, pr)

\* self._buttons as add and remove keep it
RECURSIVE ButtonsOf(_, _)
ButtonsOf(objs, p) ==
    IF objs = <<>> THEN <<>>
    ELSE IF IsButton(p[Head(objs)])
         THEN <<Head(objs)>> \o ButtonsOf(Tail(objs), p)
         ELSE ButtonsOf(Tail(objs), p)

\* list.remove: drop the first occurrence
RECURSIVE ListRemove(_, _)
ListRemove(l, x) ==
    IF l = <<>> THEN <<>>
    ELSE IF Head(l) = x THEN Tail(l)
         ELSE <<Head(l)>> \o ListRemove(Tail(l), x)

InList(l, x) == \E i \in 1..Len(l) : l[i] = x

\* the elements the program constructs
DemoPool ==
    <<Button(<<"a", "b">>, 1, 1, ""),
      Button(<<"c">>, 2, 2, ""),
      Text(<<"d", "e">>, 1, 2, "1"),
      Rectangle(Point(PyInt(0), PyInt(0)), Point(PyInt(1), PyInt(1)))>>

\* no display in progress; the locals of an interrupted Rectangle.display
\* are x, y, w, h, computed for the dimensions (gcols, grows)
IdleRender ==
    [pc |-> "idle", i |-> 0, x |-> PyInt(0), y |-> PyInt(0), w |-> PyInt(0),
     h |-> PyInt(0), gcols |-> 0, grows |-> 0]

\* the terminal once the constructor has captured its attributes and set
\* the raw mode: the position of the main program, the mode and the number
\* of times the captured attributes were restored
TermRaw == [pc |-> "constructed", raw |-> TRUE, restores |-> 0]

\* the platform variant of get_key, the keypress being typed and its input
\* not yet read
PlatOf(variant) == [variant |-> variant, press |-> "none", pending |-> <<>>]

\* the connections the server accepts in its lifetime
Conns == 1..MaxConns

\* a connection not accepted yet: its socket, the position of its receive
\* thread, and whether accept has put it into the client set
NoConn == [sock |-> "none", thread |-> "none", added |-> FALSE]

\* no broadcast in progress: the position of bcast, the size of the set
\* when the iteration began, the clients in the set at the call, the
\* clients iterated, the current client, the local set disconn, the clients
\* whose send failed, and the exception bcast raised
IdleBcast ==
    [pc |-> "idle", used |-> 0, snap |-> {}, seen |-> {}, cur |-> 0,
     disconn |-> {}, failed |-> {}, exc |-> "none"]

\* Server.__init__: no clients
InitServer ==
    /\ clients = {}
    /\ conns = [c \in Conns |-> NoConn]
    /\ bcast = IdleBcast

\* the state besides the screen, on a POSIX platform
InitAux ==
    /\ render = IdleRender
    /\ term = TermRaw
    /\ plat = PlatOf("posix")
    /\ InitServer

\* Screen.__init__ with the terminal size (c, r), before any element
InitScreen(c, r) ==
    /\ cols = c
    /\ rows = r
    /\ buffer = [i \in 1..(c * r) |-> Blank]
    /\ objects = <<>>
    /\ buttons = <<>>
    /\ focus = None
    /\ frame = <<"ESC[H">> \o Join([i \in 1..(c * r) |-> Blank])
    /\ err = NoErr
    /\ listening = FALSE
    /\ pc = "Start"
    /\ key = <<>>
    /\ read = <<>>
    /\ eof = FALSE
    /\ edits = 0
    /\ last = Op("init")

Init ==
    /\ pool = DemoPool
    /\ \E c \in 1..MaxCols, r \in 1..MaxRows : InitScreen(c, r)
    /\ InitAux

(***************************************************************************)
(* Operations.                                                             *)
(***************************************************************************)
\* the rest of a handler that ends in self.display()
Redisplay(buf, c, r, objs, f) ==
    \E d \in {display(buf, c, r, objs, pool, f, frame)} :
        /\ buffer' = d.buf
        /\ frame' = d.frame
        /\ err' = d.err
        /\ edits' = 0

\* a resize handler that keeps the old buffer
ResizeStale(c, r) ==
    /\ err = NoErr
    /\ UNCHANGED aux
    /\ cols' = c
    /\ rows' = r
    /\ Redisplay(buffer, c, r, objects, focus)
    /\ listening' = (listening /\ err' = NoErr)
    /\ last' = Op("resize")
    /\ UNCHANGED <<objects, buttons, focus, pool, pc, key, read, eof>>

\* resize_handler, the SIGWINCH handler
Resize(c, r) ==
    /\ err = NoErr
    /\ UNCHANGED aux
    /\ cols' = c
    /\ rows' = r
    /\ Redisplay([i \in 1..(c * r) |-> Blank], c, r, objects, focus)
    /\ listening' = (listening /\ err' = NoErr)
    /\ last' = Op("resize")
    /\ UNCHANGED <<objects, buttons, focus, pool, pc, key, read, eof>>

\* Screen.add
Add(id) ==
    /\ err = NoErr
    /\ UNCHANGED aux
    /\ ~listening
    /\ Len(objects) < MaxObjects
    /\ objects' = Append(objects, id)
    /\ buttons' = IF IsButton(pool[id]) THEN Append(buttons, id) ELSE buttons
    /\ Redisplay(buffer, cols, rows, objects', focus)
    /\ last' = ObjOp("add", id)
    /\ UNCHANGED <<cols, rows, focus, pool, listening, pc, key, read, eof>>

\* Screen.remove
Remove(id) ==
    /\ err = NoErr
    /\ UNCHANGED aux
    /\ ~listening
    /\ IF InList(objects, id)
       THEN /\ objects' = ListRemove(objects, id)
            /\ buttons' = IF IsButton(pool[id]) THEN ListRemove(buttons, id)
                          ELSE buttons
            /\ Redisplay(buffer, cols, rows, objects', focus)
       ELSE /\ err' = "ValueError"
            /\ UNCHANGED <<objects, buttons, buffer, frame, edits>>
    /\ last' = ObjOp("remove", id)
    /\ UNCHANGED <<cols, rows, focus, pool, listening, pc, key, read, eof>>

\* Screen.display called directly
Display ==
    /\ err = NoErr
    /\ UNCHANGED aux
    /\ ~listening
    /\ Redisplay(buffer, cols, rows, objects, focus)
    /\ last' = Op("display")
    /\ UNCHANGED <<cols, rows, objects, buttons, focus, pool, listening, pc,
                   key, read, eof>>

\* screen[row, col] = value
SetItemCall(row, col, value) ==
    /\ err = NoErr
    /\ UNCHANGED aux
    /\ ~listening
    /\ edits < MaxEdits
    /\ \E s \in {SetItem(RS(buffer, NoErr), cols, rows, row, col, value)} :
           /\ buffer' = s.buf
           /\ err' = s.err
    /\ edits' = edits + 1
    /\ last' = Last("set", 0, row, col, 0, value, <<>>, <<>>, None)
    /\ UNCHANGED <<cols, rows, objects, buttons, focus, pool, frame,
                   listening, pc, key, read, eof>>

\* screen[row, col]
GetItemCall(row, col) ==
    /\ err = NoErr
    /\ UNCHANGED aux
    /\ ~listening
    /\ \E g \in {GetItem(buffer, cols, rows, row, col)} :
           /\ err' = g.err
           /\ last' = Last("get", 0, row, col, 0, <<>>, g.val, <<>>, None)
    /\ UNCHANGED <<cols, rows, buffer, objects, buttons, focus, pool, frame,
                   listening, pc, key, read, eof, edits>>

\* screen.fmt(f, row, col, width)
FmtCall(f, row, col, width) ==
    /\ err = NoErr
    /\ UNCHANGED aux
    /\ ~listening
    /\ edits < MaxEdits
    /\ \E s \in {Fmt(RS(buffer, NoErr), cols, rows, f, row, col, width)} :
           /\ buffer' = s.buf
           /\ err' = s.err
    /\ edits' = edits + 1
    /\ last' = Last("fmt", 0, row, col, width, <<>>, <<>>, <<>>, None)
    /\ UNCHANGED <<cols, rows, objects, buttons, focus, pool, frame,
                   listening, pc, key, read, eof>>

\* the call of Screen.listen_keys, up to its first get_key
ListenKeys ==
    /\ err = NoErr
    /\ UNCHANGED aux
    /\ ~listening
    /\ pc = "Start"
    /\ listening' = TRUE
    /\ last' = Op("listen")
    /\ UNCHANGED <<cols, rows, buffer, objects, buttons, focus, pool, frame,
                   err, pc, key, read, eof, edits>>

\* a loop that ends on any key starting with an escape
LoopBodyQuitOnEscape(k) ==
    /\ last' = KeyOp(k, IF k = Enter THEN focus ELSE None)
    /\ IF k # <<>> /\ k[1] = "ESC" /\ k \notin Arrows
       THEN /\ listening' = FALSE
            /\ UNCHANGED <<focus, buffer, frame, err, edits>>
       ELSE IF k \in Arrows
       THEN /\ focus' = NewFocus(k, focus, buttons, pool)
            /\ Redisplay(buffer, cols, rows, objects, focus')
            /\ listening' = (err' = NoErr)
       ELSE UNCHANGED <<listening, focus, buffer, frame, err, edits>>
    /\ UNCHANGED <<cols, rows, objects, buttons, pool>>

\* a loop whose Enter presses the first button and redisplays
LoopBodyEnterFirst(k) ==
    /\ last' = KeyOp(k, IF k = Enter /\ Len(buttons) > 0 THEN buttons[1]
                        ELSE None)
    /\ IF k = Quit
       THEN /\ listening' = FALSE
            /\ UNCHANGED <<focus, buffer, frame, err, edits>>
       ELSE IF k \in Arrows \/ k = Enter
       THEN /\ focus' = IF k = Enter THEN focus
                        ELSE NewFocus(k, focus, buttons, pool)
            /\ Redisplay(buffer, cols, rows, objects, focus')
            /\ listening' = (err' = NoErr)
       ELSE UNCHANGED <<listening, focus, buffer, frame, err, edits>>
    /\ UNCHANGED <<cols, rows, objects, buttons, pool>>

\* the body of the loop of listen_keys once get_key has returned k
LoopBody(k) ==
    /\ last' = KeyOp(k, IF k = Enter THEN focus ELSE None)
    /\ IF k = Quit
       THEN /\ listening' = FALSE
            /\ UNCHANGED <<focus, buffer, frame, err, edits>>
       ELSE IF k \in Arrows
       THEN /\ focus' = NewFocus(k, focus, buttons, pool)
            /\ Redisplay(buffer, cols, rows, objects, focus')
            /\ listening' = (err' = NoErr)
       ELSE UNCHANGED <<listening, focus, buffer, frame, err, edits>>
    /\ UNCHANGED <<cols, rows, objects, buttons, pool>>

\* the keys an iteration of the loop is given
Tokens ==
    Arrows \cup {Enter, Quit, <<"1">>, <<"ESC", "[", "1", "~">>}

\* one iteration of the loop of listen_keys, get_key returning k
KeyEvent(k) ==
    /\ err = NoErr
    /\ UNCHANGED aux
    /\ listening
    /\ pc = "Start"
    /\ ~eof
    /\ read' = k
    /\ LoopBody(k)
    /\ UNCHANGED <<pc, key, eof>>

\* a get_key whose key outlives the call
ReadUnitMemory(u) ==
    /\ err = NoErr
    /\ UNCHANGED aux
    /\ listening
    /\ eof => u = ""
    /\ eof' = (eof \/ u = "")
    /\ read' = IF pc = "Start" THEN KeyAppend(<<>>, u) ELSE KeyAppend(read, u)
    /\ \E k \in {KeyAppend(key, u)} :
          IF \/ pc = "Start" /\ u = "ESC"
             \/ pc = "Escaped" /\ u \in {"[", "O"}
             \/ pc = "Body" /\ ~(isalpha(u) \/ u = "~")
          THEN /\ Len(k) < MaxKeyLen
               /\ pc' = IF pc = "Start" THEN "Escaped" ELSE "Body"
               /\ key' = k
               /\ last' = Op("read")
               /\ UNCHANGED <<cols, rows, buffer, objects, buttons, focus,
                              pool, frame, err, listening, edits>>
          ELSE /\ pc' = "Start"
               /\ key' = IF Len(k) < MaxKeyLen THEN k ELSE <<>>
               /\ LoopBody(k)

\* one stdin.read(1) of get_key returning u, with the rest of the iteration
\* of listen_keys when it completes the key; read is the text consumed by
\* the call so far
ReadUnit(u) ==
    /\ err = NoErr
    /\ UNCHANGED aux
    /\ listening
    /\ eof => u = ""
    /\ eof' = (eof \/ u = "")
    /\ read' = IF pc = "Start" THEN KeyAppend(<<>>, u) ELSE KeyAppend(read, u)
    /\ \E k \in {IF pc = "Start" THEN KeyAppend(<<>>, u)
                 ELSE KeyAppend(key, u)} :
          IF \/ pc = "Start" /\ u = "ESC"
             \/ pc = "Escaped" /\ u \in {"[", "O"}
             \/ pc = "Body" /\ ~(isalpha(u) \/ u = "~")
          THEN /\ Len(k) < MaxKeyLen
               /\ pc' = IF pc = "Start" THEN "Escaped" ELSE "Body"
               /\ key' = k
               /\ last' = Op("read")
               /\ UNCHANGED <<cols, rows, buffer, objects, buttons, focus,
                              pool, frame, err, listening, edits>>
          ELSE /\ pc' = "Start"
               /\ key' = <<>>
               /\ LoopBody(k)

(***************************************************************************)
(* Screen.display step by step, as a signal handler can interrupt it: the  *)
(* handler runs between two steps and returns into the interrupted display.*)
(***************************************************************************)
\* the position of display() before the display of the object at place i
RenderAt(i) ==
    [IdleRender EXCEPT
        !.i = i,
        !.pc = IF i > Len(objects) THEN "focus"
               ELSE IF pool[objects[i]].kind = "Rectangle" THEN "geom"
               ELSE "text"]

\* a call of Screen.display up to the end of self.clear()
DisplayBegin ==
    /\ err = NoErr
    /\ ~listening
    /\ render.pc = "idle"
    /\ buffer' = clear(buffer)
    /\ render' = RenderAt(1)
    /\ last' = Op("clear")
    /\ UNCHANGED <<cols, rows, objects, buttons, focus, pool, frame, err,
                   listening, pc, key, read, eof, edits, term, plat, net>>

\* Rectangle.display up to h = ...: the locals are computed from the
\* dimensions read at this point
RectGeom ==
    /\ err = NoErr
    /\ render.pc = "geom"
    /\ \E e \in {pool[objects[render.i]]} :
          render' = [render EXCEPT
              !.pc = "draw",
              !.x = PointCol(e.top_left, cols),
              !.y = PointRow(e.top_left, rows),
              !.w = NumAdd(NumSub(PointCol(e.bottom_right, cols),
                                  PointCol(e.top_left, cols)), PyInt(1)),
              !.h = NumAdd(NumSub(PointRow(e.bottom_right, rows),
                                  PointRow(e.top_left, rows)), PyInt(1)),
              !.gcols = cols,
              !.grows = rows]
    /\ last' = Op("geom")
    /\ UNCHANGED <<cols, rows, buffer, objects, buttons, focus, pool, frame,
                   err, listening, pc, key, read, eof, edits, term, plat, net>>

\* the writes of Rectangle.display, with the locals computed before
RectDraw ==
    /\ err = NoErr
    /\ render.pc = "draw"
    /\ \E s \in {RectangleDraw(RS(buffer, NoErr), cols, rows, render.x,
                                render.y, render.w, render.h)} :
          /\ buffer' = s.buf
          /\ err' = s.err
          /\ render' = IF s.err = NoErr THEN RenderAt(render.i + 1)
                       ELSE IdleRender
    /\ last' = Op("draw")
    /\ UNCHANGED <<cols, rows, objects, buttons, focus, pool, frame,
                   listening, pc, key, read, eof, edits, term, plat, net>>

\* Text.display of the object at the current place
TextStep ==
    /\ err = NoErr
    /\ render.pc = "text"
    /\ \E s \in {TextDisplay(RS(buffer, NoErr), cols, rows,
                              pool[objects[render.i]])} :
          /\ buffer' = s.buf
          /\ err' = s.err
          /\ render' = IF s.err = NoErr THEN RenderAt(render.i + 1)
                       ELSE IdleRender
    /\ last' = Op("text")
    /\ UNCHANGED <<cols, rows, objects, buttons, focus, pool, frame,
                   listening, pc, key, read, eof, edits, term, plat, net>>

\* if self._focus is not None: self._focus.focus(), and the print
FocusAndFlush ==
    /\ err = NoErr
    /\ render.pc = "focus"
    /\ \E s \in {IF focus # None
                  THEN ButtonFocus(RS(buffer, NoErr), cols, rows, pool[focus])
                  ELSE RS(buffer, NoErr)} :
          /\ buffer' = s.buf
          /\ err' = s.err
          /\ frame' = IF s.err = NoErr THEN <<"ESC[H">> \o Join(s.buf)
                      ELSE frame
    /\ render' = IdleRender
    /\ last' = Op("flush")
    /\ UNCHANGED <<cols, rows, objects, buttons, focus, pool, listening, pc,
                   key, read, eof, edits, term, plat, net>>

(***************************************************************************)
(* The two platform variants of get_key, reading the input of one          *)
(* keypress from the units the terminal has sent.                          *)
(***************************************************************************)
\* the keypresses: the arrows, Enter, the escape key twice, a character
Keypresses == {"Up", "Down", "Right", "Left", "Enter", "Escape2", "Char"}

\* the units a POSIX terminal sends for a keypress
PosixInput(p) ==
    CASE p = "Up" -> <<"ESC", "[", "A">>
      [] p = "Down" -> <<"ESC", "[", "B">>
      [] p = "Right" -> <<"ESC", "[", "C">>
      [] p = "Left" -> <<"ESC", "[", "D">>
      [] p = "Enter" -> <<"CR">>
      [] p = "Escape2" -> <<"ESC", "ESC">>
      [] OTHER -> <<"1">>

\* the bytes getch returns on Windows for a keypress: an arrow is one of the
\* prefixes \x00 (NUL) and \xe0 (E0) followed by its key code
Win32Input(p, prefix) ==
    CASE p = "Up" -> <<prefix, "H">>
      [] p = "Down" -> <<prefix, "P">>
      [] p = "Right" -> <<prefix, "M">>
      [] p = "Left" -> <<prefix, "K">>
      [] p = "Enter" -> <<"CR">>
      [] p = "Escape2" -> <<"ESC", "ESC">>
      [] OTHER -> <<"1">>

\* the while True loop of the POSIX get_key on the input inp; done is FALSE
\* when the input ends before the key does
RECURSIVE PosixBody(_, _)
PosixBody(k, inp) ==
    IF inp = <<>> THEN [key |-> k, rest |-> <<>>, done |-> FALSE]
    ELSE IF isalpha(Head(inp)) \/ Head(inp) = "~"
         THEN [key |-> Append(k, Head(inp)), rest |-> Tail(inp), done |-> TRUE]
         ELSE PosixBody(Append(k, Head(inp)), Tail(inp))

\* get_key (posix) on the input inp
GetKeyPosix(inp) ==
    IF Head(inp) # "ESC"
    THEN [key |-> <<Head(inp)>>, rest |-> Tail(inp), done |-> TRUE]
    ELSE IF Len(inp) < 2 THEN [key |-> inp, rest |-> <<>>, done |-> FALSE]
    ELSE IF inp[2] \in {"[", "O"}
         THEN PosixBody(<<inp[1], inp[2]>>, Tail(Tail(inp)))
         ELSE [key |-> <<inp[1], inp[2]>>, rest |-> Tail(Tail(inp)),
               done |-> TRUE]

\* bytes.decode(errors="ignore"): the byte \xe0 before an ASCII byte is
\* not valid UTF-8 and is dropped, \x00 is a character
Decode(bytes) == SelectSeq(bytes, LAMBDA b : b # "E0")

\* get_key (win32) on the input inp
GetKeyWin32(inp) ==
    IF Head(inp) \in {"NUL", "E0"}
    THEN IF Len(inp) < 2 THEN [key |-> inp, rest |-> <<>>, done |-> FALSE]
         ELSE [key |-> Decode(<<inp[1], inp[2]>>), rest |-> Tail(Tail(inp)),
               done |-> TRUE]
    ELSE [key |-> Decode(<<Head(inp)>>), rest |-> Tail(inp), done |-> TRUE]

\* get_key as the platform defines it
GetKey(variant, inp) ==
    IF variant = "win32" THEN GetKeyWin32(inp) ELSE GetKeyPosix(inp)

\* the user presses a key while listen_keys waits in get_key
PlatPress(p, prefix) ==
    /\ err = NoErr
    /\ listening
    /\ plat.pending = <<>>
    /\ plat' = [plat EXCEPT
                   !.press = p,
                   !.pending = IF plat.variant = "win32"
                               THEN Win32Input(p, prefix) ELSE PosixInput(p)]
    /\ last' = Op("press")
    /\ UNCHANGED <<cols, rows, buffer, objects, buttons, focus, pool, frame,
                   err, listening, pc, key, read, eof, edits, render, term,
                   net>>

\* one iteration of the loop of listen_keys: get_key reads a key from the
\* pending input
PlatGetKey ==
    /\ err = NoErr
    /\ listening
    /\ plat.pending # <<>>
    /\ \E g \in {GetKey(plat.variant, plat.pending)} :
          /\ g.done
          /\ read' = g.key
          /\ plat' = [plat EXCEPT !.pending = g.rest]
          /\ LoopBody(g.key)
    /\ UNCHANGED <<pc, key, eof, render, term, net>>

\* button.focus() called by the program, at most twice between two displays
FocusCall(id) ==
    /\ err = NoErr
    /\ UNCHANGED aux
    /\ ~listening
    /\ InList(buttons, id)
    /\ edits < 2
    /\ \E s \in {ButtonFocus(RS(buffer, NoErr), cols, rows, pool[id])} :
           /\ buffer' = s.buf
           /\ err' = s.err
    /\ edits' = edits + 1
    /\ last' = ObjOp("focus", id)
    /\ UNCHANGED <<cols, rows, objects, buttons, focus, pool, frame,
                   listening, pc, key, read, eof>>

(***************************************************************************)
(* The server of connect.py: the accept loop, the receive thread of every  *)
(* connection and a thread that broadcasts, interleaved between the calls  *)
(* each of them makes on the client set and on the sockets.                *)
(***************************************************************************)
\* the screen program, which the server does not touch
ui == <<cols, rows, buffer, objects, buttons, focus, pool, frame, err,
        listening, pc, key, read, eof, edits, last, render, term, plat>>

\* Server.remove: set.discard
remove(S, client) == S \ {client}

\* accept up to the call of set.add: conn.accept() returns connection c and
\* the constructor of ClientConnection starts its receive thread
AcceptConn(c) ==
    /\ conns[c].sock = "none"
    /\ \A d \in 1..(c - 1) : conns[d].added
    /\ conns' = [conns EXCEPT
                    ![c] = [sock |-> "open", thread |-> "recv",
                            added |-> FALSE]]
    /\ UNCHANGED <<ui, clients, bcast>>

\* accept: self._clients.add of the connection just constructed
AcceptAdd(c) ==
    /\ conns[c].sock # "none"
    /\ ~conns[c].added
    /\ clients' = clients \cup {c}
    /\ conns' = [conns EXCEPT ![c].added = TRUE]
    /\ UNCHANGED <<ui, bcast>>

\* the receive thread of c: recv returns no data or raises
\* ConnectionResetError, and close() closes the socket
RecvClose(c) ==
    /\ conns[c].thread = "recv"
    /\ conns' = [conns EXCEPT ![c].sock = "closed", ![c].thread = "closed"]
    /\ UNCHANGED <<ui, clients, bcast>>

\* the receive thread of c: close() removes the connection from the server
\* and the thread ends
CloseRemove(c) ==
    /\ conns[c].thread = "closed"
    /\ clients' = remove(clients, c)
    /\ conns' = [conns EXCEPT ![c].thread = "done"]
    /\ UNCHANGED <<ui, bcast>>

\* a thread calls bcast: the for statement takes an iterator of the set
BcastCall ==
    /\ bcast.pc \in {"idle", "returned"}
    /\ bcast' = [IdleBcast EXCEPT
                    !.pc = "iter",
                    !.used = Cardinality(clients),
                    !.snap = clients]
    /\ UNCHANGED <<ui, clients, conns>>

\* the for statement asks the iterator for the next client: a set whose size
\* has changed raises RuntimeError; a client added since the call is
\* iterated or not, as its place in the table falls
BcastNext ==
    /\ bcast.pc = "iter"
    /\ IF Cardinality(clients) # bcast.used
       THEN bcast' = [bcast EXCEPT !.pc = "raised", !.exc = "RuntimeError"]
       ELSE \/ \E c \in clients \ bcast.seen :
                  bcast' = [bcast EXCEPT !.pc = "send", !.cur = c]
            \/ /\ (clients \cap bcast.snap) \ bcast.seen = {}
               /\ bcast' = [bcast EXCEPT !.pc = "remove"]
    /\ UNCHANGED <<ui, clients, conns>>

\* what sendall does on an open socket
Sends == {"ok", "reset", "pipe"}

\* client.send(msg) in bcast: sendall on a closed socket raises OSError,
\* which nothing catches; ConnectionResetError puts the client into
\* disconn; BrokenPipeError is caught by send, which calls close()
BcastSend(out) ==
    /\ bcast.pc = "send"
    /\ IF conns[bcast.cur].sock = "closed"
       THEN /\ bcast' = [bcast EXCEPT
                            !.pc = "raised",
                            !.exc = "OSError",
                            !.seen = @ \cup {bcast.cur},
                            !.failed = @ \cup {bcast.cur}]
            /\ UNCHANGED conns
       ELSE /\ bcast' = [bcast EXCEPT
                            !.pc = IF out = "pipe" THEN "close" ELSE "iter",
                            !.seen = @ \cup {bcast.cur},
                            !.disconn = IF out = "reset"
                                        THEN @ \cup {bcast.cur} ELSE @,
                            !.failed = IF out = "ok"
                                       THEN @ ELSE @ \cup {bcast.cur}]
            /\ conns' = IF out = "pipe"
                        THEN [conns EXCEPT ![bcast.cur].sock = "closed"]
                        ELSE conns
    /\ UNCHANGED <<ui, clients>>

\* close() called by send removes the client from the server, inside the
\* iteration of bcast
BcastClose ==
    /\ bcast.pc = "close"
    /\ clients' = remove(clients, bcast.cur)
    /\ bcast' = [bcast EXCEPT !.pc = "iter"]
    /\ UNCHANGED <<ui, conns>>

\* the second loop of bcast removes the clients in disconn, and bcast
\* returns
BcastRemove ==
    /\ bcast.pc = "remove"
    /\ clients' = clients \ bcast.disconn
    /\ bcast' = [bcast EXCEPT !.pc = "returned"]
    /\ UNCHANGED <<ui, conns>>

Values == {<<"z">>}

Resizes == \E c \in 1..MaxCols, r \in 1..MaxRows : Resize(c, r)
Adds == \E id \in 1..Len(pool) : Add(id)
Removes == \E id \in 1..Len(pool) : Remove(id)
\* positions and widths from one below to one above the screen
SetItems == \E row \in 0..(rows + 1), col \in 0..(cols + 1), v \in Values :
                SetItemCall(row, col, v)
GetItems == \E row \in 0..(rows + 1), col \in 0..(cols + 1) :
                GetItemCall(row, col)
Fmts == \E row \in 0..(rows + 1), col \in 0..(cols + 1),
           width \in -1..(cols + 1) : FmtCall("7", row, col, width)
KeyEvents == \E k \in Tokens : KeyEvent(k)
ReadKey == \E u \in Units : ReadUnit(u)

\* the program of add, remove, display, resize signals and key events
Next ==
    \/ Resizes
    \/ Adds
    \/ Removes
    \/ Display
    \/ ListenKeys
    \/ KeyEvents

Spec == Init /\ [][Next]_vars

\* a screen of size (c, r) with the elements objs of the pool p registered
\* by Screen.add and displayed, before any key is read
InitWith(c, r, objs, p) ==
    \E d \in {display([i \in 1..(c * r) |-> Blank], c, r, objs, p, None,
                       <<>>)} :
        /\ pool = p
        /\ cols = c
        /\ rows = r
        /\ buffer = d.buf
        /\ frame = d.frame
        /\ err = d.err
        /\ objects = objs
        /\ buttons = ButtonsOf(objs, p)
        /\ focus = None
        /\ listening = FALSE
        /\ pc = "Start"
        /\ key = <<>>
        /\ read = <<>>
        /\ eof = FALSE
        /\ edits = 0
        /\ last = Op("init")

\* the element lists a program has registered before it uses the buffer
BufLists == {<<>>, <<3>>, <<1, 4>>}

\* the terminal sizes of these programs, as <<cols, rows>>
BufSizes == {<<1, 1>>, <<2, 2>>, <<3, 2>>}

InitBuf ==
    /\ \E size \in BufSizes, objs \in BufLists :
           InitWith(size[1], size[2], objs, DemoPool)
    /\ InitAux

\* direct use of the buffer: item reads and writes, fmt, display
NextBuf ==
    \/ SetItems
    \/ GetItems
    \/ Fmts
    \/ Display

SpecBuf == InitBuf /\ [][NextBuf]_vars

\* the element lists a program has registered before it reads keys
KeyLists == {<<>>, <<1, 2>>}

InitKeys ==
    /\ \E c \in 1..MaxCols, r \in 1..MaxRows, objs \in KeyLists :
           InitWith(c, r, objs, DemoPool)
    /\ InitAux

\* the key loop read unit by unit
NextKeys ==
    \/ Resizes
    \/ ListenKeys
    \/ ReadKey

SpecKeys == InitKeys /\ [][NextKeys]_vars

\* every read of stdin returns, with a unit or with "" at the end of input
SpecKeysFair == SpecKeys /\ WF_vars(ReadKey)

\* three buttons placed anywhere on the navigation grid
NavCols == (1..MaxNavCol) \cup {5, 15, 24}
NavPlaces == (1..MaxNavRow) \X NavCols
NavPool(p1, p2, p3) ==
    <<Button(<<"a">>, p1[1], p1[2], ""),
      Button(<<"b", "c">>, p2[1], p2[2], ""),
      Button(<<"d", "e", "f">>, p3[1], p3[2], "")>>

InitNav ==
    /\ \E p1 \in NavPlaces, p2 \in NavPlaces, p3 \in NavPlaces :
           InitWith(MaxCols, MaxRows, <<1, 2, 3>>, NavPool(p1, p2, p3))
    /\ InitAux

\* the key loop key by key
NextNav ==
    \/ ListenKeys
    \/ KeyEvents

SpecNav == InitNav /\ [][NextNav]_vars

\* a display called by the program, with resize signals between its steps
NextRace ==
    \/ DisplayBegin
    \/ RectGeom
    \/ RectDraw
    \/ TextStep
    \/ FocusAndFlush
    \/ Resizes

InitRace ==
    /\ \E c \in 1..MaxCols, r \in 1..MaxRows, objs \in BufLists :
           InitWith(c, r, objs, DemoPool)
    /\ InitAux

SpecRace == InitRace /\ [][NextRace]_vars

(***************************************************************************)
(* The main program of client.py around the screen: the element is added   *)
(* before the try statement, listen_keys runs inside it and close() is its *)
(* finally clause.                                                         *)
(***************************************************************************)
\* frame.add(Rectangle(Anchor(0, 0), Anchor(1, 1)))
MainAdd ==
    /\ term.pc = "constructed"
    /\ objects = <<>>
    /\ Add(4)

\* try: frame.listen_keys(), up to the first get_key
MainListen ==
    /\ err = NoErr
    /\ term.pc = "constructed"
    /\ objects = <<4>>
    /\ ~listening
    /\ listening' = TRUE
    /\ term' = [term EXCEPT !.pc = "try"]
    /\ last' = Op("listen")
    /\ UNCHANGED <<cols, rows, buffer, objects, buttons, focus, pool, frame,
                   err, pc, key, read, eof, edits, render, plat, net>>

\* the iterations of the loop of listen_keys
MainKeys == term.pc = "try" /\ KeyEvents

\* a resize signal while the program runs
MainResize == term.pc \in {"constructed", "try"} /\ Resizes

\* finally: frame.close(), once listen_keys has returned or raised; close
\* restores the captured attributes
MainFinally ==
    /\ term.pc = "try"
    /\ ~listening
    /\ term' = [pc |-> "exited", raw |-> FALSE, restores |-> term.restores + 1]
    /\ last' = Op("close")
    /\ UNCHANGED <<cols, rows, buffer, objects, buttons, focus, pool, frame,
                   err, listening, pc, key, read, eof, edits, render, plat,
                   net>>

\* an exception raised before the try statement leaves main
MainUnwind ==
    /\ term.pc = "constructed"
    /\ err # NoErr
    /\ term' = [term EXCEPT !.pc = "exited"]
    /\ last' = Op("unwind")
    /\ UNCHANGED <<cols, rows, buffer, objects, buttons, focus, pool, frame,
                   err, listening, pc, key, read, eof, edits, render, plat,
                   net>>

\* SIGINT: Python raises KeyboardInterrupt at the current statement
SigInt ==
    /\ err = NoErr
    /\ term.pc = "constructed" \/ (term.pc = "try" /\ listening)
    /\ err' = "KeyboardInterrupt"
    /\ listening' = FALSE
    /\ last' = Op("sigint")
    /\ UNCHANGED <<cols, rows, buffer, objects, buttons, focus, pool, frame,
                   pc, key, read, eof, edits, render, term, plat, net>>

\* SIGTERM: no handler is installed, the process ends at once
SigTerm ==
    /\ term.pc \in {"constructed", "try"}
    /\ term' = [term EXCEPT !.pc = "exited"]
    /\ listening' = FALSE
    /\ last' = Op("sigterm")
    /\ UNCHANGED <<cols, rows, buffer, objects, buttons, focus, pool, frame,
                   err, pc, key, read, eof, edits, render, plat, net>>

NextMain ==
    \/ MainAdd
    \/ MainListen
    \/ MainKeys
    \/ MainResize
    \/ MainFinally
    \/ MainUnwind
    \/ SigInt
    \/ SigTerm

SpecMain == Init /\ [][NextMain]_vars

\* the coordinates of the corners: the integers 0 and 1 and the floats
\* 0.0, 0.5 and 1.0
Coords == {PyInt(0), PyInt(1), Num(0, TRUE), Num(1, TRUE), Num(2, TRUE)}

\* one rectangle with any two corners
InitRect ==
    /\ \E y1 \in Coords, x1 \in Coords, y2 \in Coords, x2 \in Coords :
           pool = <<Rectangle(Point(y1, x1), Point(y2, x2))>>
    /\ \E c \in 1..MaxCols, r \in 1..MaxRows : InitScreen(c, r)
    /\ InitAux

\* the rectangle registered, displayed and redisplayed on resize signals
NextRect ==
    \/ Adds
    \/ Display
    \/ Resizes

SpecRect == InitRect /\ [][NextRect]_vars

PlatPresses ==
    \E p \in Keypresses, prefix \in {"NUL", "E0"} : PlatPress(p, prefix)

\* the key loop on either platform
InitPlat ==
    /\ \E c \in 1..MaxCols, r \in 1..MaxRows, objs \in KeyLists :
           InitWith(c, r, objs, DemoPool)
    /\ render = IdleRender
    /\ term = TermRaw
    /\ \E variant \in {"posix", "win32"} : plat = PlatOf(variant)
    /\ InitServer

NextPlat ==
    \/ ListenKeys
    \/ PlatPresses
    \/ PlatGetKey

SpecPlat == InitPlat /\ [][NextPlat]_vars

FocusCalls == \E id \in 1..Len(pool) : FocusCall(id)

\* one styled Text or one Button, of 0 to 3 characters, placed from left of
\* and above the screen to right of and below it
SpanTexts == {<<>>, <<"a">>, <<"a", "b">>, <<"a", "b", "c">>}

InitSpan ==
    /\ \E text \in SpanTexts, row \in 0..(MaxRows + 1),
          col \in -2..(MaxCols + 2), e \in {"Text", "Button"} :
           pool = <<IF e = "Text" THEN Text(text, row, col, "1")
                    ELSE Button(text, row, col, "")>>
    /\ \E c \in 1..MaxCols, r \in 1..MaxRows : InitScreen(c, r)
    /\ InitAux

\* the element registered, displayed and, for a button, focused by the
\* program
NextSpan ==
    \/ Adds
    \/ FocusCalls
    \/ Display

SpecSpan == InitSpan /\ [][NextSpan]_vars

\* the server with its threads
NextServer ==
    \/ \E c \in Conns : AcceptConn(c)
    \/ \E c \in Conns : AcceptAdd(c)
    \/ \E c \in Conns : RecvClose(c)
    \/ \E c \in Conns : CloseRemove(c)
    \/ BcastCall
    \/ BcastNext
    \/ \E out \in Sends : BcastSend(out)
    \/ BcastClose
    \/ BcastRemove

InitServerOnly ==
    /\ pool = DemoPool
    /\ InitScreen(1, 1)
    /\ InitAux

SpecServer == InitServerOnly /\ [][NextServer]_vars

(***************************************************************************)
(* Properties.                                                             *)
(***************************************************************************)
InBounds(row, col) == 1 <= row /\ row <= rows /\ 1 <= col /\ col <= cols

\* one step of an item write or read
C1_Step ==
    /\ (last'.op = "set" /\ InBounds(last.row, last.col)')
           => GetItem(buffer', cols', rows', last'.row, last'.col)
                  = [val |-> last'.val, err |-> NoErr]
    /\ (last'.op = "get" /\ ~InBounds(last.row, last.col)')
           => (last'.res = <<>> /\ err' = NoErr)
    /\ (last'.op = "set" /\ ~InBounds(last.row, last.col)')
           => (buffer' = buffer /\ err' = NoErr)

\* C1: a character written at a position inside the screen is the one read
\* back there; a read outside the screen returns the empty string; a write
\* outside the screen changes no cell; none of them raises an error.
C1_SetThenGet == [][C1_Step]_vars

C1_Witness ==
    /\ last.op = "set"
    /\ InBounds(last.row, last.col)
    /\ last.val = <<"z">>
    /\ GetItem(buffer, cols, rows, last.row, last.col).val = <<"z">>
    /\ objects # <<>>

\* C2: the buffer always holds cols * rows cells.
C2_BufferLength == Len(buffer) = cols * rows

C2_Witness ==
    /\ last.op = "resize"
    /\ objects # <<>>
    /\ cols = MaxCols
    /\ rows = 1
    /\ Len(buffer) = MaxCols

\* the score for the key k, from the focused element f to the button b:
\* (dirCol*colDiff + dirRow*2*rowDiff) /
\* (colDiff^2 + (2*rowDiff)^2 + 1), as <<numerator, denominator>>
C3_Score(k, f, b) ==
    LET dirRow == IF k = ArrowUp THEN -1 ELSE IF k = ArrowDown THEN 1 ELSE 0
        dirCol == IF k = ArrowLeft THEN -1 ELSE IF k = ArrowRight THEN 1 ELSE 0
        rowDiff == center(pool[b])[1] - center(pool[f])[1]
        colDiff == center(pool[b])[2] - center(pool[f])[2]
    IN  <<dirCol * colDiff + dirRow * 2 * rowDiff,
          colDiff * colDiff + (2 * rowDiff) * (2 * rowDiff) + 1>>

C3_Less(a, b) == a[1] * b[2] < b[1] * a[2]

\* the positions in the button list of the buttons other than f
C3_Others(f) == {i \in 1..Len(buttons) : buttons[i] # f}

\* the positions of the other buttons with the greatest score, when it is > 0
C3_Best(k, f) ==
    {i \in C3_Others(f) :
        /\ C3_Score(k, f, buttons[i])[1] > 0
        /\ \A j \in C3_Others(f) :
              ~C3_Less(C3_Score(k, f, buttons[i]), C3_Score(k, f, buttons[j]))}

C3_Expected(k, f) ==
    IF C3_Best(k, f) = {} THEN f
    ELSE buttons[CHOOSE i \in C3_Best(k, f) : \A j \in C3_Best(k, f) : i <= j]

\* C3: an arrow key with a focused button moves the focus to the other button
\* of greatest score if that score is > 0, to the earliest registered one
\* among equals, and leaves it unchanged otherwise.
C3_ArrowMovesFocus ==
    (last.op = "key" /\ last.key \in Arrows /\ last.focus0 # None)
        => focus = C3_Expected(last.key, last.focus0)

\* an arrow key decided between two buttons of equal greatest score
C3_Witness ==
    /\ last.op = "key"
    /\ last.key \in Arrows
    /\ last.focus0 # None
    /\ Cardinality(C3_Best(last.key, last.focus0)) >= 2
    /\ focus # last.focus0
    /\ center(pool[buttons[2]]) # center(pool[buttons[3]])

\* all buttons have their centers on one row, at distinct columns
C4_OneRow ==
    \A i, j \in 1..Len(buttons) :
        /\ center(pool[buttons[i]])[1] = center(pool[buttons[j]])[1]
        /\ i # j => center(pool[buttons[i]])[2] # center(pool[buttons[j]])[2]

\* the buttons on the side of f the key k points to
C4_Side(k, f) ==
    {b \in {buttons[i] : i \in 1..Len(buttons)} :
        IF k = ArrowRight THEN center(pool[b])[2] > center(pool[f])[2]
        ELSE center(pool[b])[2] < center(pool[f])[2]}

C4_Dist(a, b) ==
    IF center(pool[a])[2] >= center(pool[b])[2]
    THEN center(pool[a])[2] - center(pool[b])[2]
    ELSE center(pool[b])[2] - center(pool[a])[2]

\* C4: with all centers on one row at distinct columns, Right (Left) moves
\* the focus to the nearest button on the right (left) and leaves it unchanged
\* when there is none.
C4_NearestOnRow ==
    (/\ last.op = "key"
     /\ last.key \in {ArrowRight, ArrowLeft}
     /\ last.focus0 # None
     /\ C4_OneRow)
        => IF C4_Side(last.key, last.focus0) = {} THEN focus = last.focus0
           ELSE /\ focus \in C4_Side(last.key, last.focus0)
                /\ \A b \in C4_Side(last.key, last.focus0) :
                      C4_Dist(focus, last.focus0) <= C4_Dist(b, last.focus0)

\* centers at columns 5, 15 and 25 of one row: Right from 5 gives 15
C4_Witness ==
    /\ last.op = "key"
    /\ last.key = ArrowRight
    /\ C4_OneRow
    /\ center(pool[1])[2] = 5
    /\ center(pool[2])[2] = 15
    /\ center(pool[3])[2] = 25
    /\ last.focus0 = 1
    /\ focus = 2

\* the first registered button, None when there is none
C5_FirstButton ==
    IF \E i \in 1..Len(objects) : IsButton(pool[objects[i]])
    THEN objects[CHOOSE i \in 1..Len(objects) :
                     /\ IsButton(pool[objects[i]])
                     /\ \A j \in 1..(i - 1) : ~IsButton(pool[objects[j]])]
    ELSE None

\* C5: an arrow key without a focused button focuses the first registered
\* button, or leaves the focus None when no button is registered, without
\* an error.
C5_FirstFocus ==
    (last.op = "key" /\ last.key \in Arrows /\ last.focus0 = None)
        => (focus = C5_FirstButton /\ err = NoErr)

C5_Witness ==
    /\ last.op = "key"
    /\ last.key \in Arrows
    /\ last.focus0 = None
    /\ Len(buttons) = 2
    /\ buttons[1] = 2
    /\ focus = 2

\* C6: the focused button is None or a registered button.
C6_FocusRegistered == focus = None \/ InList(buttons, focus)

\* the loop ends in this step if and only if the step completes ESC ESC
C7_Step ==
    (listening /\ ~listening')
        <=> (/\ listening
             /\ pc = "Escaped"
             /\ key = <<"ESC">>
             /\ last'.op = "key"
             /\ last'.key = <<"ESC", "ESC">>
             /\ read' = <<"ESC", "ESC">>)

\* C7: the loop of listen_keys ends exactly at the key made of an escape
\* read in the Start state and an escape read next; every other key leaves
\* it running.
C7_QuitOnDoubleEscape == [][C7_Step]_vars

C7_Witness ==
    /\ last.op = "key"
    /\ last.key = Quit
    /\ ~listening
    /\ err = NoErr
    /\ focus # None

\* C8: the key get_key returns is the text that this call consumed, whatever
\* was read before; ESC [ A is always the arrow-up key.
C8_NoMemory ==
    /\ last.op = "key" => last.key = read
    /\ (last.op = "key" /\ read = <<"ESC", "[", "A">>) => last.key = ArrowUp

\* an arrow up decoded after earlier keys
C8_Witness ==
    /\ last.op = "key"
    /\ read = <<"ESC", "[", "A">>
    /\ last.key = ArrowUp
    /\ last.focus0 # None

\* C9: a get_key call that has started always completes, also when the
\* input ends inside an escape sequence.
C9_GetKeyCompletes == (pc # "Start") ~> (pc = "Start")

\* the 1-based buffer positions of the first and last cell fmt styles
C10_First(row, col) == (row - 1) * cols + Min(Max(1, col), cols)
C10_Last(row, col, width) ==
    C10_First(row, col)
        + Min(Max(1, width), cols - Min(Max(1, col), cols) + 1) - 1

\* one call of fmt
C10_Step ==
    last'.op = "fmt" =>
        /\ err' = NoErr
        /\ Len(buffer') = Len(buffer)
        /\ IF last'.row < 1 \/ last'.row > rows THEN buffer' = buffer
           ELSE LET i1 == C10_First(last'.row, last'.col)
                    i2 == C10_Last(last'.row, last'.col, last'.width)
                IN  /\ (last'.row - 1) * cols < i1
                    /\ i1 <= i2
                    /\ i2 <= last'.row * cols
                    /\ last'.width <= 0 => i2 = i1
                    /\ \A i \in 1..Len(buffer) :
                          buffer'[i] =
                              (IF i = i1 THEN StyleOn("7") ELSE <<>>)
                                  \o buffer[i]
                                  \o (IF i = i2 THEN StyleOff ELSE <<>>)

\* C10: fmt raises no error; a row outside the screen changes nothing;
\* otherwise the style-on prefix goes to the cell at the clamped column, the
\* style-off suffix to the last cell of the clamped width (the same cell for
\* a width <= 0), both in that row, and no other cell changes.
C10_FmtClamps == [][C10_Step]_vars

\* a negative width right of the screen styles the last cell of the row
C10_Witness ==
    /\ last.op = "fmt"
    /\ last.width < 0
    /\ last.col > cols
    /\ last.row = rows
    /\ cols > 1
    /\ rows > 1
    /\ Len(buffer[Len(buffer)]) >= 6
    /\ SubSeq(buffer[Len(buffer)], 1, 3) = StyleOn("7")

\* C11: a resize signal during a display does not race with it: the writes
\* of Rectangle.display use locals computed for the current dimensions, no
\* write fails, and the frame printed last is the full display of the
\* elements at the current dimensions.
C11_RenderNotRaced ==
    /\ render.pc = "draw" => (render.gcols = cols /\ render.grows = rows)
    /\ err = NoErr
    /\ last.op = "flush" =>
           frame = display(buffer, cols, rows, objects, pool, focus,
                           frame).frame

\* C12: when the program has shut down, by the quit key, by an exception
\* before or inside the key loop or by a termination signal, the captured
\* terminal attributes have been restored exactly once.
C12_RestoredOnce ==
    term.pc = "exited" => (term.restores = 1 /\ ~term.raw)

\* the buffer after clear() and the display() of the first n registered
\* elements, one after the other
RECURSIVE C13_After(_)
C13_After(n) ==
    IF n = 0 THEN RS([i \in 1..(cols * rows) |-> Blank], NoErr)
    ELSE ObjDisplay(C13_After(n - 1), cols, rows, pool[objects[n]])

\* the buffer once the focus styling has been applied after all elements
C13_Styled ==
    IF focus = None THEN C13_After(Len(objects))
    ELSE ButtonFocus(C13_After(Len(objects)), cols, rows, pool[focus])

\* the content of a cell without its style sequences
C13_Content(cell) ==
    SelectSeq(cell, LAMBDA u : u \notin {"ESC[", "m", "1", "7"})

\* the Text or Button at place n covers the position (row, col)
C13_Covers(n, row, col) ==
    /\ pool[objects[n]].kind # "Rectangle"
    /\ pool[objects[n]].row = row
    /\ pool[objects[n]].col <= col
    /\ col < pool[objects[n]].col + Len(pool[objects[n]].text)

\* the places of the elements that can have written at (row, col)
C13_Writers(row, col) ==
    {n \in 1..Len(objects) :
        pool[objects[n]].kind = "Rectangle" \/ C13_Covers(n, row, col)}

\* C13: display clears every cell, displays the elements in registration
\* order (a cell covered by several elements holds the character of the one
\* registered last), then applies the focus styling of the focused button,
\* and prints the whole buffer as one text behind the cursor-home sequence.
C13_DisplayOrder ==
    err = NoErr =>
        /\ frame = <<"ESC[H">> \o Join(buffer)
        /\ buffer = C13_Styled.buf
        /\ \A row \in 1..rows, col \in 1..cols :
              LET cell == buffer[Idx(cols, rows, row, col) + 1]
                  ws == C13_Writers(row, col)
                  top == CHOOSE n \in ws : \A m \in ws : m <= n
              IN  /\ ws = {} => C13_Content(cell) = Blank
                  /\ (ws # {} /\ C13_Covers(top, row, col)) =>
                         C13_Content(cell) =
                             <<pool[objects[top]].text[col - pool[objects[top]].col + 1]>>
        /\ (focus # None /\ InBounds(pool[focus].row, pool[focus].col)) =>
               SubSeq(buffer[Idx(cols, rows, pool[focus].row, pool[focus].col) + 1],
                      1, 3) = StyleOn("7")

\* a focused button overlapped by a text registered after it
C13_Witness ==
    /\ err = NoErr
    /\ objects = <<1, 3>>
    /\ cols = 2
    /\ focus = 1
    /\ last.op = "key"
    /\ buffer[1] = <<"ESC[", "7", "m", "a">>
    /\ buffer[2] = <<"ESC[", "1", "m", "d", "ESC[", "m", "ESC[", "m">>

\* the cell with its content character replaced by v and its style
\* sequences kept
C14_Rewrite(cell, v) ==
    [j \in 1..Len(cell) |->
        IF cell[j] \in {"ESC[", "m", "1", "7"} THEN cell[j] ELSE v]

\* one write at a position inside the screen
C14_Step ==
    (last'.op = "set" /\ InBounds(last.row, last.col)' /\ err' = NoErr) =>
        buffer' = [buffer EXCEPT
                      ![Idx(cols, rows, last'.row, last'.col) + 1] =
                          C14_Rewrite(@, last'.val[1])]

\* C14: a write to a cell replaces only its content character and keeps the
\* style-on prefix and style-off suffix that fmt added to the cell.
C14_WriteKeepsWrapper == [][C14_Step]_vars

\* the number n is the Python integer v
C15_IsInt(n, v) == ~n.fl /\ n.t2 = 2 * v

\* the corner p yields an integer row in 1..rows and column in 1..cols
C15_Corner(p) ==
    /\ \E v \in 1..rows : C15_IsInt(PointRow(p, rows), v)
    /\ \E v \in 1..cols : C15_IsInt(PointCol(p, cols), v)
    /\ (p.y.t2 = 0 /\ p.x.t2 = 0) =>
           (C15_IsInt(PointRow(p, rows), 1) /\ C15_IsInt(PointCol(p, cols), 1))
    /\ (p.y.t2 = 2 /\ p.x.t2 = 2) =>
           (C15_IsInt(PointRow(p, rows), rows)
               /\ C15_IsInt(PointCol(p, cols), cols))

\* C15: for the corners of every displayed rectangle, Point.row and
\* Point.col yield an integer row in 1..rows and an integer column in
\* 1..cols; Point(0, 0) yields (1, 1) and Point(1, 1) yields (rows, cols).
C15_PointsAreCells ==
    \A n \in 1..Len(objects) :
        pool[objects[n]].kind = "Rectangle" =>
            /\ C15_Corner(pool[objects[n]].top_left)
            /\ C15_Corner(pool[objects[n]].bottom_right)

\* C18: the display of a rectangle raises no error, whatever its corners
\* and the dimensions of the screen.
C18_RectangleNoError ==
    (\E n \in 1..Len(objects) : pool[objects[n]].kind = "Rectangle")
        => err = NoErr

\* the key token of a keypress
C16_Token(p) ==
    CASE p = "Up" -> ArrowUp
      [] p = "Down" -> ArrowDown
      [] p = "Right" -> ArrowRight
      [] p = "Left" -> ArrowLeft
      [] p = "Enter" -> Enter
      [] p = "Escape2" -> Quit
      [] OTHER -> <<"1">>

\* C16: on both platform variants, once the input of a keypress has been
\* read, the key returned by get_key is the token of that keypress, the loop
\* has ended exactly for the double escape, and Enter has pressed the
\* focused button.
C16_SameTokens ==
    (last.op = "key" /\ plat.press # "none" /\ plat.pending = <<>>) =>
        /\ last.key = C16_Token(plat.press)
        /\ listening = (plat.press # "Escape2")
        /\ plat.press = "Enter" => last.pressed = focus

\* one iteration of the key loop on the Enter key
C17_Step ==
    (last'.op = "key" /\ last'.key = Enter) =>
        /\ last'.pressed = focus
        /\ UNCHANGED <<focus, objects, buttons, buffer, frame, err,
                       listening, cols, rows>>

\* C17: on Enter, press() is called on the focused button and on no other,
\* and on none when no button is focused; the focus, the element lists and
\* the buffer are unchanged and nothing is printed.
C17_EnterPressesFocus == [][C17_Step]_vars

\* Enter with the second of two buttons focused
C17_Witness ==
    /\ last.op = "key"
    /\ last.key = Enter
    /\ buttons = <<1, 2>>
    /\ focus = 2
    /\ last.pressed = 2
    /\ listening

\* one call of focus() right after a call of focus() on the same button
C19_Step ==
    (last.op = "focus" /\ last'.op = "focus" /\ last'.obj = last.obj
        /\ edits' = edits + 1)
        => buffer' = buffer

\* C19: a second call of focus() on a button leaves the buffer as the first
\* call left it.
C19_FocusIdempotent == [][C19_Step]_vars

\* the buffer places of the cells that hold a character of the element e
C20_Written(e) ==
    {Idx(cols, rows, e.row, col) + 1 :
        col \in {c \in 1..cols : /\ 1 <= e.row /\ e.row <= rows
                                 /\ e.col <= c
                                 /\ c < e.col + Len(e.text)}}

\* the places of the cells with a style-on prefix, with a style-off suffix
C20_On == {i \in 1..Len(buffer) : buffer[i][1] = "ESC["}
C20_Off == {i \in 1..Len(buffer) : buffer[i][Len(buffer[i])] = "m"}

\* the places from a style-on prefix to a style-off suffix
C20_Enclosed ==
    {i \in 1..Len(buffer) : \E p \in C20_On, q \in C20_Off : p <= i /\ i <= q}

\* C20: once a styled Text has been displayed, or a Button has been focused,
\* the cells from the style-on prefix to the style-off suffix all hold a
\* character of that element, and no cell is styled when none of its
\* characters is on the screen.
C20_StyleWithinSpan ==
    (\/ last.op \in {"add", "display"} /\ pool[1].fmt # ""
     \/ last.op = "focus" /\ edits = 1)
        => /\ C20_Enclosed \subseteq C20_Written(pool[1])
           /\ C20_Written(pool[1]) = {} => (C20_On = {} /\ C20_Off = {})

\* the three shapes of a key: one unit that is not an escape; an escape and
\* one unit that is neither [ nor O; an escape, [ or O, units that are
\* neither alphabetic nor ~, and one unit that is alphabetic or ~
C21_Shape(k) ==
    \/ Len(k) = 1 /\ k[1] # "ESC"
    \/ Len(k) = 2 /\ k[1] = "ESC" /\ k[2] \notin {"[", "O"}
    \/ /\ Len(k) >= 3
       /\ k[1] = "ESC"
       /\ k[2] \in {"[", "O"}
       /\ \A i \in 3..(Len(k) - 1) : ~(isalpha(k[i]) \/ k[i] = "~")
       /\ isalpha(k[Len(k)]) \/ k[Len(k)] = "~"

\* C21: every key the POSIX get_key returns has one of the three shapes and
\* is the units this call consumed, in order, so that the keys of successive
\* calls concatenate to the units consumed.
C21_Partition ==
    last.op = "key" => C21_Shape(last.key) /\ last.key = read

\* C22: a connection whose receive thread has closed it and ended is not in
\* the client set once accept has added it.
C22_ClosedAbsent ==
    \A c \in Conns :
        (conns[c].thread = "done" /\ conns[c].added) => c \notin clients

\* C23: bcast raises nothing, and when it returns it has sent to every
\* client that was in the set at the call and the clients whose send failed
\* are not in the set.
C23_BcastCompletes ==
    /\ bcast.pc # "raised"
    /\ bcast.pc = "returned" =>
           /\ bcast.snap \subseteq bcast.seen
           /\ bcast.failed \cap clients = {}
====
